---- MODULE Spec2Model ----
(***************************************************************************)
(* Model of jwst/stpipe/crds_client.py: the facade between the calibration *)
(* pipeline and the CRDS best-reference engine.                            *)
(*                                                                         *)
(* Strings are sequences of one-character strings, so that substring       *)
(* tests, case conversion, regular-expression matching and formatting are  *)
(* computed the way the Python code computes them.                         *)
(***************************************************************************)
EXTENDS Naturals, Sequences, FiniteSets, TLC

\* ------------------------------------------------------------------ bounds
NumCallers == 2      \* concurrent callers sharing one cache
MaxTypes == 2        \* longest requested reference type sequence
MaxPathLen == 4      \* longest raw engine path explored exhaustively
MaxNameLen == 3      \* longest reference type name explored exhaustively
MaxKeys == 2         \* most keys of a flattened header explored exhaustively

VARIABLES
    pc,             \* per caller: position inside the facade call
    op,             \* per caller: the facade function called
    dataset,        \* per caller: the dataset argument (a path or an open model)
    types,          \* per caller: the requested reference_file_types
    handle,         \* per caller: the data model opened by the call itself
    data_dict,      \* per caller: result of _get_data_dict
    lock,           \* holder of the CRDS cache lock, 0 when free
    lockTaken,      \* per caller: the call entered the cache lock
    engineInvoked,  \* per caller: the call invoked crds.getreferences
    bestrefs,       \* per caller: what crds.getreferences returned or raised
    refpaths,       \* per caller: what _get_refpaths returned or raised
    outcome,        \* per caller: what the facade call returned or raised
    engineLog,      \* the (function, observatory) pairs passed to the engine
    fn,             \* pure-function harness: the function applied
    arg,            \* pure-function harness: its argument
    ret             \* pure-function harness: its result

vars == <<pc, op, dataset, types, handle, data_dict, lock, lockTaken,
          engineInvoked, bestrefs, refpaths, outcome, engineLog, fn, arg, ret>>

machineVars == <<pc, op, dataset, types, handle, data_dict, lock, lockTaken,
                 engineInvoked, bestrefs, refpaths, outcome, engineLog>>

harnessVars == <<fn, arg, ret>>

\* -------------------------------------------------------- string helpers
LowerCase == <<"a","b","c","d","e","f","g","h","i","j","k","l","m",
               "n","o","p","q","r","s","t","u","v","w","x","y","z">>

UpperCase == <<"A","B","C","D","E","F","G","H","I","J","K","L","M",
               "N","O","P","Q","R","S","T","U","V","W","X","Y","Z">>

Digits == {"0","1","2","3","4","5","6","7","8","9"}

Range(s) == { s[i] : i \in DOMAIN s }

Letters == Range(LowerCase) \cup Range(UpperCase)

\* All sequences over alphabet of length at most n.
StringsUpTo(alphabet, n) == UNION { [1..k -> alphabet] : k \in 0..n }

\* str.upper() of one character.
UpperChar(c) ==
    IF \E i \in DOMAIN LowerCase : LowerCase[i] = c
    THEN UpperCase[CHOOSE i \in DOMAIN LowerCase : LowerCase[i] = c]
    ELSE c

\* str.upper()
Upper(s) == [i \in DOMAIN s |-> UpperChar(s[i])]

\* sub in s
Contains(s, sub) ==
    \E i \in 1..(Len(s) + 1) :
        /\ i + Len(sub) - 1 <= Len(s)
        /\ SubSeq(s, i, i + Len(sub) - 1) = sub

\* s.startswith(prefix)
StartsWith(s, prefix) ==
    /\ Len(prefix) <= Len(s)
    /\ SubSeq(s, 1, Len(prefix)) = prefix

\* Results of a call: a returned value or a raised exception.
NoResult == [tag |-> "none"]

Return(v) == [tag |-> "return", value |-> v]

Raise(kind, args) == [tag |-> "raise", exc |-> [kind |-> kind, args |-> args]]

\* str(exc) of an exception: its only argument, or the text of its args tuple.
TupleText(args) ==
    IF Len(args) = 0 THEN ""
    ELSE IF Len(args) = 1 THEN args[1]
    ELSE "('" \o args[1] \o "', '" \o args[2] \o "')"

Str(exc) == TupleText(exc.args)

\* ------------------------------------------------ _get_refpaths, lines 108-110
NA == <<"N", "/", "A">>

\* Variant: the substring test without upper().
NormalizePathNoUpper(filepath) == IF ~Contains(filepath, NA) THEN filepath ELSE NA

\* filepath if "N/A" not in filepath.upper() else "N/A"
NormalizePath(filepath) == IF ~Contains(Upper(filepath), NA) THEN filepath ELSE NA

\* Variant: not-applicable types are left out of the mapping.
NormalizeRefpathsDropNA(raw) ==
    [filetype \in { k \in DOMAIN raw : NormalizePath(raw[k]) # NA } |-> raw[filetype]]

\* {filetype: ... for (filetype, filepath) in bestrefs.items()}
NormalizeRefpaths(raw) == [filetype \in DOMAIN raw |-> NormalizePath(raw[filetype])]

\* ------------------------------------------------ _clean_flat_dict, lines 84-87
\* Variant: complex missing from the isinstance tuple.
ScalarKindsNoComplex == {"str", "long", "int", "float", "bool"}

\* (python23.string_types, python23.long, int, float, complex, bool)
ScalarKinds == {"str", "long", "int", "float", "complex", "bool"}

IsInstance(val, kinds) == val.kind \in kinds

_clean_flat_dict(header) ==
    [key \in { k \in DOMAIN header : IsInstance(header[k], ScalarKinds) } |-> header[key]]

\* ------------------------------------------------ get_override_name, lines 153-173
OverridePrefix == <<"o","v","e","r","r","i","d","e","_">>

\* [_A-Za-z]
IdentStart(c) == c = "_" \/ c \in Letters

\* [_A-Za-z0-9]
IdentRest(c) == c = "_" \/ c \in Letters \/ c \in Digits

\* Python's $ without re.MULTILINE: at the end of the string, or just before a
\* newline that is the last character of the string.
AtDollar(s, k) == k = Len(s) \/ (k = Len(s) - 1 /\ s[Len(s)] = "\n")

\* re.match('^[_A-Za-z][_A-Za-z0-9]*$', s): some prefix s[1..k] is consumed by
\* the two character classes and $ matches right after it.
ReMatchIdentifier(s) ==
    \E k \in 1..Len(s) :
        /\ IdentStart(s[1])
        /\ \A i \in 2..k : IdentRest(s[i])
        /\ AtDollar(s, k)

get_override_name(reference_file_type) ==
    IF ~ReMatchIdentifier(reference_file_type)
    THEN Raise("ValueError", <<reference_file_type>>)
    ELSE Return(OverridePrefix \o reference_file_type)

\* ------------------------------------------------------------ the facade
Callers == 1..NumCallers

Types == {"flat", "dark"}

\* Requested reference_file_types: sequences of type names of length <= n.
TypeSeqs(n) == StringsUpTo(Types, n)

\* Two data models: one whose flattened metadata is empty, one with scalar and
\* non-scalar entries.
DatasetIds == {"d0", "d1"}

NoDataset == [kind |-> "none", id |-> "none"]

EmptyMap == [k \in {} |-> <<>>]

\* dataset_model.to_flat_dict(include_arrays=False)
to_flat_dict(id) ==
    IF id = "d1"
    THEN [k \in {"meta.instrument.name", "meta.exposure.nints", "meta.wcsinfo"} |->
            IF k = "meta.instrument.name" THEN [kind |-> "str", v |-> "MIRI"]
            ELSE IF k = "meta.exposure.nints" THEN [kind |-> "int", v |-> "2"]
            ELSE [kind |-> "dict", v |-> "wcs"]]
    ELSE EmptyMap

_get_data_dict(dataset_model) == _clean_flat_dict(to_flat_dict(dataset_model))

\* Raw paths the engine reports: a cached reference file, or not applicable.
PathRef == <<"/", "c", "/", "r", ".", "f", "i", "t", "s">>

PathNotFoundNA == <<"N","O","T"," ","F","O","U","N","D"," ","n","/","a">>

\* Every mapping the engine may return: any set of types, any of `paths` each.
BestrefsOver(paths) == UNION { [K -> paths] : K \in SUBSET Types }

\* The failure kinds of the engine: the three the gateway translates, and any other.
TranslatedKinds == {"CrdsBadRulesError", "CrdsBadReferenceError", "CrdsLookupError"}

EngineKinds == TranslatedKinds \cup {"CrdsError"}

\* No call is in progress, the cache lock is free, the engine was never called.
MachineInit ==
    /\ pc = [t \in Callers |-> "idle"]
    /\ op = [t \in Callers |-> "none"]
    /\ dataset = [t \in Callers |-> NoDataset]
    /\ types = [t \in Callers |-> <<>>]
    /\ handle = [t \in Callers |-> "none"]
    /\ data_dict = [t \in Callers |-> EmptyMap]
    /\ lock = 0
    /\ lockTaken = [t \in Callers |-> FALSE]
    /\ engineInvoked = [t \in Callers |-> FALSE]
    /\ bestrefs = [t \in Callers |-> NoResult]
    /\ refpaths = [t \in Callers |-> NoResult]
    /\ outcome = [t \in Callers |-> NoResult]
    /\ engineLog = {}

Init ==
    /\ MachineInit
    /\ fn = "none"
    /\ arg = <<>>
    /\ ret = NoResult

\* A call starts: the arguments are bound; a dataset given by path has been
\* opened by datamodels.open (opened = TRUE) before the body runs.
Enter(t, o, ds, ts, opened) ==
    /\ pc[t] = "idle"
    /\ pc' = [pc EXCEPT ![t] = "multi"]
    /\ op' = [op EXCEPT ![t] = o]
    /\ dataset' = [dataset EXCEPT ![t] = ds]
    /\ types' = [types EXCEPT ![t] = ts]
    /\ handle' = [handle EXCEPT ![t] = IF opened THEN "open" ELSE "none"]
    /\ UNCHANGED <<data_dict, lock, lockTaken, engineInvoked, bestrefs, refpaths,
                   outcome, engineLog, harnessVars>>

\* datamodels.open(filename) raises: the call ends before any resolution.
OpenFails(t, o, ds, ts) ==
    /\ pc[t] = "idle"
    /\ pc' = [pc EXCEPT ![t] = "done"]
    /\ op' = [op EXCEPT ![t] = o]
    /\ dataset' = [dataset EXCEPT ![t] = ds]
    /\ types' = [types EXCEPT ![t] = ts]
    /\ outcome' = [outcome EXCEPT ![t] = Raise("IOError", <<"cannot open">>)]
    /\ UNCHANGED <<handle, data_dict, lock, lockTaken, engineInvoked, bestrefs,
                   refpaths, engineLog, harnessVars>>

\* A pipeline step calls get_multiple_reference_paths with an open data model.
CallMultiple(t, ids, typeseqs) ==
    \E id \in ids, ts \in typeseqs :
        Enter(t, "get_multiple_reference_paths", [kind |-> "model", id |-> id], ts, FALSE)

\* get_refpaths_from_filename, lines 52-55: with datamodels.open(filename) as model
get_refpaths_from_filename(t, typeseqs) ==
    \E id \in DatasetIds, ts \in typeseqs :
        \/ Enter(t, "get_refpaths_from_filename", [kind |-> "path", id |-> id], ts, TRUE)
        \/ OpenFails(t, "get_refpaths_from_filename", [kind |-> "path", id |-> id], ts)

\* get_reference_file, lines 145-150: a string is opened, a model is used as given;
\* either way the request is [reference_file_type].
get_reference_file(t) ==
    \E id \in DatasetIds, ty \in Types, kind \in {"path", "model"} :
        \/ Enter(t, "get_reference_file", [kind |-> kind, id |-> id], <<ty>>, kind = "path")
        \/ /\ kind = "path"
           /\ OpenFails(t, "get_reference_file", [kind |-> kind, id |-> id], <<ty>>)

\* get_multiple_reference_paths, line 70: data_dict = _get_data_dict(dataset_model)
get_multiple_reference_paths(t) ==
    /\ pc[t] = "multi"
    /\ data_dict' = [data_dict EXCEPT ![t] = _get_data_dict(dataset[t].id)]
    /\ pc' = [pc EXCEPT ![t] = "refpaths"]
    /\ UNCHANGED <<op, dataset, types, handle, lock, lockTaken, engineInvoked,
                   bestrefs, refpaths, outcome, engineLog, harnessVars>>

\* Variant: the empty-types check is absent.
NoTypesNever(reference_file_types) == FALSE

\* tuple(reference_file_types) is falsy exactly when it is empty.
NoTypes(reference_file_types) == Len(reference_file_types) = 0

\* _get_refpaths, lines 97-98: if not reference_file_types: return {}
RefpathsEmpty(t) ==
    /\ pc[t] = "refpaths"
    /\ NoTypes(types[t])
    /\ refpaths' = [refpaths EXCEPT ![t] = Return(EmptyMap)]
    /\ pc' = [pc EXCEPT ![t] = "resolved"]
    /\ UNCHANGED <<op, dataset, types, handle, data_dict, lock, lockTaken,
                   engineInvoked, bestrefs, outcome, engineLog, harnessVars>>

\* Variant: the with body is entered without waiting for the lock.
AcquireLockNoWait(t) ==
    /\ pc[t] = "refpaths"
    /\ ~NoTypes(types[t])
    /\ lock' = t
    /\ lockTaken' = [lockTaken EXCEPT ![t] = TRUE]
    /\ pc' = [pc EXCEPT ![t] = "locked"]
    /\ UNCHANGED <<op, dataset, types, handle, data_dict, engineInvoked, bestrefs,
                   refpaths, outcome, engineLog, harnessVars>>

\* _get_refpaths, line 100: with crds_cache_locking.get_cache_lock(): blocks
\* until the cache lock is free, then holds it.
AcquireLock(t) ==
    /\ pc[t] = "refpaths"
    /\ ~NoTypes(types[t])
    /\ lock = 0
    /\ lock' = t
    /\ lockTaken' = [lockTaken EXCEPT ![t] = TRUE]
    /\ pc' = [pc EXCEPT ![t] = "locked"]
    /\ UNCHANGED <<op, dataset, types, handle, data_dict, engineInvoked, bestrefs,
                   refpaths, outcome, engineLog, harnessVars>>

\* The observatory named in the getreferences call, line 101.
GetreferencesObservatory == "tmt"

\* The observatory named in the locate_file call, line 197.
LocateFileObservatory == "jwst"

\* The observatory named in the get_processing_mode call, line 201.
ProcessingModeObservatory == "jwst"

\* _get_refpaths, line 101: crds.getreferences(data_dict, reftypes=..., observatory=...)
\* is entered.
EngineCall(t) ==
    /\ pc[t] = "locked"
    /\ engineInvoked' = [engineInvoked EXCEPT ![t] = TRUE]
    /\ engineLog' = engineLog \cup
          {[fn |-> "getreferences", observatory |-> GetreferencesObservatory]}
    /\ pc' = [pc EXCEPT ![t] = "engine"]
    /\ UNCHANGED <<op, dataset, types, handle, data_dict, lock, lockTaken, bestrefs,
                   refpaths, outcome, harnessVars>>

\* crds.getreferences returns a mapping: control leaves the with body.
EngineReturn(t, paths) ==
    /\ pc[t] = "engine"
    /\ \E m \in BestrefsOver(paths) :
          bestrefs' = [bestrefs EXCEPT ![t] = Return(m)]
    /\ pc' = [pc EXCEPT ![t] = "exit_with"]
    /\ UNCHANGED <<op, dataset, types, handle, data_dict, lock, lockTaken,
                   engineInvoked, refpaths, outcome, engineLog, harnessVars>>

\* crds.getreferences raises: control leaves the with body by the exception.
EngineRaise(t, argsets) ==
    /\ pc[t] = "engine"
    /\ \E kind \in EngineKinds, args \in argsets :
          bestrefs' = [bestrefs EXCEPT ![t] = Raise(kind, args)]
    /\ pc' = [pc EXCEPT ![t] = "exit_with"]
    /\ UNCHANGED <<op, dataset, types, handle, data_dict, lock, lockTaken,
                   engineInvoked, refpaths, outcome, engineLog, harnessVars>>

\* Variant: the lock is released after the call instead of by a with exit.
ReleaseLockOnSuccessOnly(t) ==
    /\ pc[t] = "exit_with"
    /\ lock' = IF bestrefs[t].tag = "return" THEN 0 ELSE lock
    /\ pc' = [pc EXCEPT ![t] = "released"]
    /\ UNCHANGED <<op, dataset, types, handle, data_dict, lockTaken, engineInvoked,
                   bestrefs, refpaths, outcome, engineLog, harnessVars>>

\* _get_refpaths, line 100: the with statement's exit releases the cache lock,
\* whether the body returned or raised.
ReleaseLock(t) ==
    /\ pc[t] = "exit_with"
    /\ lock' = 0
    /\ pc' = [pc EXCEPT ![t] = "released"]
    /\ UNCHANGED <<op, dataset, types, handle, data_dict, lockTaken, engineInvoked,
                   bestrefs, refpaths, outcome, engineLog, harnessVars>>

\* Variant: every translated kind is re-raised as CrdsLookupError.
TranslateAllAsLookup(exc) ==
    IF exc.kind \in TranslatedKinds
    THEN Raise("CrdsLookupError", <<Str(exc)>>)
    ELSE [tag |-> "raise", exc |-> exc]

\* _get_refpaths, lines 102-107: the three except clauses, in order; an
\* exception none of them names propagates as it is.
Translate(exc) ==
    IF exc.kind = "CrdsBadRulesError" THEN Raise("CrdsBadRulesError", <<Str(exc)>>)
    ELSE IF exc.kind = "CrdsBadReferenceError" THEN Raise("CrdsBadReferenceError", <<Str(exc)>>)
    ELSE IF exc.kind = "CrdsLookupError" THEN Raise("CrdsLookupError", <<Str(exc)>>)
    ELSE [tag |-> "raise", exc |-> exc]

\* _get_refpaths, lines 102-110, after the lock is released: re-raise a
\* translated failure, or normalize the mapping and return it.
RefpathsFinish(t) ==
    /\ pc[t] = "released"
    /\ refpaths' = [refpaths EXCEPT ![t] =
          IF bestrefs[t].tag = "raise"
          THEN Translate(bestrefs[t].exc)
          ELSE Return(NormalizeRefpaths(bestrefs[t].value))]
    /\ pc' = [pc EXCEPT ![t] = "resolved"]
    /\ UNCHANGED <<op, dataset, types, handle, data_dict, lock, lockTaken,
                   engineInvoked, bestrefs, outcome, engineLog, harnessVars>>

\* What the facade function hands its caller once _get_refpaths is over:
\* get_reference_file indexes the mapping by its one type (a missing key is a
\* KeyError), the other two return the mapping.
FacadeResult(o, ts, inner) ==
    IF inner.tag = "return" /\ o = "get_reference_file"
    THEN IF ts[1] \in DOMAIN inner.value
         THEN Return(inner.value[ts[1]])
         ELSE Raise("KeyError", <<ts[1]>>)
    ELSE inner

\* Variant: the model is closed after the body instead of by a with exit.
CloseOnReturnOnly(h, result) == IF h = "open" /\ result.tag = "return" THEN "closed" ELSE h

\* The exit of "with datamodels.open(...) as model": a model the call opened is
\* closed, however the body ended.
CloseHandle(h, result) == IF h = "open" THEN "closed" ELSE h

\* Lines 56-57, 72, 148, 150: the facade function returns or raises.
FacadeReturn(t) ==
    /\ pc[t] = "resolved"
    /\ outcome' = [outcome EXCEPT ![t] = FacadeResult(op[t], types[t], refpaths[t])]
    /\ handle' = [handle EXCEPT ![t] =
          CloseHandle(handle[t], FacadeResult(op[t], types[t], refpaths[t]))]
    /\ pc' = [pc EXCEPT ![t] = "done"]
    /\ UNCHANGED <<op, dataset, types, data_dict, lock, lockTaken, engineInvoked,
                   bestrefs, refpaths, engineLog, harnessVars>>

\* "crds://"
CrdsScheme == <<"c", "r", "d", "s", ":", "/", "/">>

\* config.pop_crds_uri: the URI without its scheme.
pop_crds_uri(uri) == SubSeq(uri, Len(CrdsScheme) + 1, Len(uri))

\* crds.locate_file: the file's place under the cache root.
locate_file(basename) == <<"/", "c", "/">> \o basename

Uris == { CrdsScheme \o <<"f">>, <<"h", "t", "t", "p", ":", "/", "/", "x">>, <<"c", "r", "d", "s">> }

\* reference_uri_to_cache_path, lines 194-197.
reference_uri_to_cache_path(t) ==
    /\ pc[t] = "idle"
    /\ \E uri \in Uris :
          /\ dataset' = [dataset EXCEPT ![t] = [kind |-> "uri", id |-> uri]]
          /\ IF ~StartsWith(uri, CrdsScheme)
             THEN /\ outcome' = [outcome EXCEPT ![t] = Raise("CrdsError", <<"bad uri">>)]
                  /\ UNCHANGED engineLog
             ELSE /\ outcome' = [outcome EXCEPT ![t] = Return(locate_file(pop_crds_uri(uri)))]
                  /\ engineLog' = engineLog \cup
                        {[fn |-> "locate_file", observatory |-> LocateFileObservatory]}
    /\ op' = [op EXCEPT ![t] = "reference_uri_to_cache_path"]
    /\ pc' = [pc EXCEPT ![t] = "done"]
    /\ UNCHANGED <<types, handle, data_dict, lock, lockTaken, engineInvoked,
                   bestrefs, refpaths, harnessVars>>

\* get_context_used, lines 199-202.
get_context_used(t) ==
    /\ pc[t] = "idle"
    /\ \E connected \in BOOLEAN :
          outcome' = [outcome EXCEPT ![t] = Return(<<"j", ".", "p", "m", "a", "p">>)]
    /\ engineLog' = engineLog \cup
          {[fn |-> "get_processing_mode", observatory |-> ProcessingModeObservatory]}
    /\ op' = [op EXCEPT ![t] = "get_context_used"]
    /\ pc' = [pc EXCEPT ![t] = "done"]
    /\ UNCHANGED <<dataset, types, handle, data_dict, lock, lockTaken, engineInvoked,
                   bestrefs, refpaths, harnessVars>>

\* The caller has its answer and may call again.
NextCall(t) ==
    /\ pc[t] = "done"
    /\ pc' = [pc EXCEPT ![t] = "idle"]
    /\ op' = [op EXCEPT ![t] = "none"]
    /\ dataset' = [dataset EXCEPT ![t] = NoDataset]
    /\ types' = [types EXCEPT ![t] = <<>>]
    /\ handle' = [handle EXCEPT ![t] = "none"]
    /\ data_dict' = [data_dict EXCEPT ![t] = EmptyMap]
    /\ lockTaken' = [lockTaken EXCEPT ![t] = FALSE]
    /\ engineInvoked' = [engineInvoked EXCEPT ![t] = FALSE]
    /\ bestrefs' = [bestrefs EXCEPT ![t] = NoResult]
    /\ refpaths' = [refpaths EXCEPT ![t] = NoResult]
    /\ outcome' = [outcome EXCEPT ![t] = NoResult]
    /\ UNCHANGED <<lock, engineLog, harnessVars>>

\* Concurrent callers of get_multiple_reference_paths sharing one cache lock.
Next ==
    \E t \in Callers :
        \/ CallMultiple(t, {"d1"}, TypeSeqs(1))
        \/ get_multiple_reference_paths(t)
        \/ RefpathsEmpty(t)
        \/ AcquireLock(t)
        \/ EngineCall(t)
        \/ EngineReturn(t, {PathRef})
        \/ EngineRaise(t, {<<"no match">>})
        \/ ReleaseLock(t)
        \/ RefpathsFinish(t)
        \/ FacadeReturn(t)
        \/ NextCall(t)

Spec == Init /\ [][Next]_vars

\* Messages an engine failure may carry: none, one, or two arguments.
EngineArgs == {<<>>, <<"no match">>, <<"no match", "rmap.py:512">>}

\* One caller using every entry point of the facade, with every engine answer.
NextFacade ==
    \/ CallMultiple(1, DatasetIds, TypeSeqs(MaxTypes))
    \/ get_refpaths_from_filename(1, TypeSeqs(MaxTypes))
    \/ get_reference_file(1)
    \/ get_multiple_reference_paths(1)
    \/ RefpathsEmpty(1)
    \/ AcquireLock(1)
    \/ EngineCall(1)
    \/ EngineReturn(1, {PathRef, PathNotFoundNA})
    \/ EngineRaise(1, EngineArgs)
    \/ ReleaseLock(1)
    \/ RefpathsFinish(1)
    \/ FacadeReturn(1)
    \/ reference_uri_to_cache_path(1)
    \/ get_context_used(1)
    \/ NextCall(1)

SpecFacade == Init /\ [][NextFacade]_vars
\* ------------------------------------------------- the pure functions alone
\* The machine stays in its initial state; one function is applied to one input.
InitApply(f, inputs) ==
    /\ MachineInit
    /\ fn = f
    /\ arg \in inputs
    /\ ret = NoResult

Apply(f, result) ==
    /\ fn = f
    /\ ret = NoResult
    /\ ret' = result
    /\ UNCHANGED <<machineVars, fn, arg>>

\* Raw engine results: any set of types, one of them with any path over
\* PathAlphabet of length <= MaxPathLen, the others with a cached file's path.
PathAlphabet == {"N", "n", "/", "A", "a", "x"}

RawResults ==
    {EmptyMap} \cup
    UNION { { [k \in K |-> IF k = k0 THEN p ELSE PathRef] :
                k0 \in K, p \in StringsUpTo(PathAlphabet, MaxPathLen) } :
            K \in SUBSET Types }

\* _get_refpaths, lines 108-110, applied to a raw result.
ApplyNormalize == Apply("NormalizeRefpaths", Return(NormalizeRefpaths(arg)))

SpecNormalize == InitApply("NormalizeRefpaths", RawResults) /\ [][ApplyNormalize]_vars

\* Reference type names: letters, a digit, an underscore, a dash, a newline.
NameAlphabet == {"f", "Z", "_", "9", "-", "\n"}

ApplyOverrideName == Apply("get_override_name", get_override_name(arg))

SpecOverride ==
    InitApply("get_override_name", StringsUpTo(NameAlphabet, MaxNameLen))
        /\ [][ApplyOverrideName]_vars

\* Flattened headers: up to MaxKeys keys, each with a value of any kind.
KeyNames == <<"meta.a", "meta.b", "meta.c", "meta.d">>

HeaderKeys == { KeyNames[i] : i \in 1..MaxKeys }

\* The kinds of value a flattened header may hold.
ValueKinds == {"str", "long", "int", "float", "complex", "bool", "list", "dict", "NoneType"}

HeaderValues == { [kind |-> k, v |-> "v"] : k \in ValueKinds }

Headers == UNION { [K -> HeaderValues] : K \in SUBSET HeaderKeys }

\* _get_data_dict on a model whose to_flat_dict is arg.
ApplyCleanFlatDict == Apply("_clean_flat_dict", Return(_clean_flat_dict(arg)))

SpecClean == InitApply("_clean_flat_dict", Headers) /\ [][ApplyCleanFlatDict]_vars
\* ------------------------------------------------------------------ claims

InWithBody == {"locked", "engine", "exit_with"}

\* C1: at most one caller is inside crds.getreferences at a time: a caller is
\* inside the with body (and so inside the engine call) only while it holds the
\* cache lock, and no two callers are inside the engine call together.
C1_EngineCallsSerialized ==
    /\ \A t \in Callers : pc[t] \in InWithBody => lock = t
    /\ \A s, t \in Callers : (pc[s] = "engine" /\ pc[t] = "engine") => s = t

\* One caller is inside the engine call while another, with types to resolve,
\* waits for the lock.
C1_Witness ==
    \E s, t \in Callers :
        /\ s # t
        /\ pc[s] = "engine"
        /\ pc[t] = "refpaths"
        /\ types[t] # <<>>

\* C2: once the with statement is left, and so whenever _get_refpaths has
\* returned or raised, whatever the engine did, the caller does not hold the
\* cache lock.
C2_LockReleasedOnEveryExit ==
    \A t \in Callers :
        (pc[t] \in {"released", "resolved", "done"} \/ refpaths[t] # NoResult) => lock # t

\* _get_refpaths has raised a failure it does not translate, after taking the lock.
C2_Witness ==
    \E t \in Callers :
        /\ pc[t] = "resolved"
        /\ lockTaken[t]
        /\ refpaths[t].tag = "raise"
        /\ refpaths[t].exc.kind = "CrdsError"

\* C3: get_multiple_reference_paths with an empty type sequence returns the
\* empty mapping, never invokes the engine and never takes the cache lock.
C3_EmptyTypesResolveNothing ==
    \A t \in Callers :
        (op[t] = "get_multiple_reference_paths" /\ types[t] = <<>>) =>
            /\ ~engineInvoked[t]
            /\ ~lockTaken[t]
            /\ lock # t
            /\ pc[t] \notin InWithBody
            /\ refpaths[t] \in {NoResult, Return(EmptyMap)}
            /\ pc[t] = "done" => outcome[t] = Return(EmptyMap)

\* A call with no types, on a model with metadata, has returned.
C3_Witness ==
    \E t \in Callers :
        /\ op[t] = "get_multiple_reference_paths"
        /\ types[t] = <<>>
        /\ dataset[t].id = "d1"
        /\ pc[t] = "done"

\* C4: when the engine call fails, _get_refpaths raises a failure of the same
\* kind: one of the three translated kinds carries exactly the string form of
\* the original, any other kind is the original failure itself; and the facade
\* call returns no mapping.
C4_FailureKindPreserved ==
    \A t \in Callers :
        (bestrefs[t].tag = "raise" /\ pc[t] \in {"resolved", "done"}) =>
            /\ refpaths[t].tag = "raise"
            /\ refpaths[t].exc.kind = bestrefs[t].exc.kind
            /\ IF bestrefs[t].exc.kind \in TranslatedKinds
               THEN refpaths[t].exc.args = <<Str(bestrefs[t].exc)>>
               ELSE refpaths[t].exc = bestrefs[t].exc
            /\ pc[t] = "done" => outcome[t] = refpaths[t]

\* The engine raised CrdsBadReferenceError with a message and an engine-internal
\* second argument, and the facade call is over.
C4_Witness ==
    \E t \in Callers :
        /\ pc[t] = "done"
        /\ bestrefs[t].tag = "raise"
        /\ bestrefs[t].exc.kind = "CrdsBadReferenceError"
        /\ Len(bestrefs[t].exc.args) = 2

\* The path holds "N/A" in some letter case: an n, a slash, an a, in a row.
HasNAAnyCase(path) ==
    \E i \in 1..Len(path) :
        /\ i + 2 <= Len(path)
        /\ path[i] \in {"N", "n"}
        /\ path[i + 1] = "/"
        /\ path[i + 2] \in {"A", "a"}

\* C5: the normalized mapping has exactly the keys of the raw result; a value
\* is "N/A" when the raw path holds "N/A" in any letter case and the raw path
\* otherwise.
C5_NormalizedPaths ==
    ret # NoResult =>
        /\ ret.tag = "return"
        /\ DOMAIN ret.value = DOMAIN arg
        /\ \A k \in DOMAIN arg :
              ret.value[k] = IF HasNAAnyCase(arg[k]) THEN NA ELSE arg[k]

\* A raw result with a lower-case "n/a" inside a longer path was normalized.
C5_Witness ==
    /\ ret # NoResult
    /\ \E k \in DOMAIN arg : arg[k] = <<"x", "n", "/", "a">> /\ ret.value[k] = NA

\* A get_multiple_reference_paths call with types and parameters returned a mapping.
MultipleReturned(t) ==
    /\ op[t] = "get_multiple_reference_paths"
    /\ pc[t] = "done"
    /\ types[t] # <<>>
    /\ DOMAIN data_dict[t] # {}
    /\ outcome[t].tag = "return"

\* C6 as claimed: the returned mapping's keys are exactly the requested types,
\* whatever mapping the engine returned.
C6_KeysAreRequestedTypes ==
    \A t \in Callers :
        MultipleReturned(t) => DOMAIN outcome[t].value = Range(types[t])

\* C6 amended: the returned mapping's keys are exactly the keys of the mapping
\* the engine returned, so they are the requested types exactly when the engine
\* answered with one entry per requested type.
C6_KeysAreEngineKeys ==
    \A t \in Callers :
        MultipleReturned(t) =>
            /\ DOMAIN outcome[t].value = DOMAIN bestrefs[t].value
            /\ DOMAIN bestrefs[t].value = Range(types[t])
                  => DOMAIN outcome[t].value = Range(types[t])

\* Two types were requested, the engine answered for both, one not applicable.
C6_Witness ==
    \E t \in Callers :
        /\ MultipleReturned(t)
        /\ Range(types[t]) = Types
        /\ DOMAIN bestrefs[t].value = Types
        /\ \E k \in Types : bestrefs[t].value[k] = PathNotFoundNA

InResolution == {"multi", "refpaths", "locked", "engine", "exit_with", "released", "resolved"}

\* C7: a dataset given by path is open during the whole resolution and closed
\* once the call is over (unless it could not be opened, and then nothing was
\* resolved); for a dataset given as an open model the call opens and closes
\* nothing.
C7_ScopedDataset ==
    \A t \in Callers :
        op[t] \in {"get_reference_file", "get_refpaths_from_filename"} =>
            IF dataset[t].kind = "path"
            THEN /\ pc[t] \in InResolution => handle[t] = "open"
                 /\ pc[t] = "done" =>
                       \/ handle[t] = "closed"
                       \/ /\ handle[t] = "none"
                          /\ refpaths[t] = NoResult
                          /\ ~lockTaken[t]
                          /\ outcome[t].tag = "raise"
            ELSE handle[t] = "none"

\* get_reference_file on a path ended with a failure the gateway let through,
\* after the engine was called.
C7_Witness ==
    \E t \in Callers :
        /\ op[t] = "get_reference_file"
        /\ dataset[t].kind = "path"
        /\ pc[t] = "done"
        /\ engineInvoked[t]
        /\ outcome[t].tag = "raise"
        /\ outcome[t].exc.kind = "CrdsError"
        /\ handle[t] = "closed"

\* s is an identifier: a letter or underscore, then letters, digits, underscores.
IsIdentifier(s) ==
    /\ Len(s) >= 1
    /\ IdentStart(s[1])
    /\ \A i \in 2..Len(s) : IdentRest(s[i])

\* C8: get_override_name(s) returns "override_" + s exactly when s is an
\* identifier, and raises ValueError for every other string.
C8_OverrideNameIffIdentifier ==
    ret # NoResult =>
        IF IsIdentifier(arg)
        THEN ret = Return(OverridePrefix \o arg)
        ELSE ret.tag = "raise" /\ ret.exc.kind = "ValueError"

\* The kinds the data model calls scalar.
ScalarValue(val) == val.kind \in {"str", "int", "long", "float", "complex", "bool"}

\* C9: the extracted mapping is the header restricted to its scalar-valued
\* keys, values unchanged, and the extraction does not fail.
C9_ScalarRestriction ==
    ret # NoResult =>
        /\ ret.tag = "return"
        /\ DOMAIN ret.value = { k \in DOMAIN arg : ScalarValue(arg[k]) }
        /\ \A k \in DOMAIN ret.value : ret.value[k] = arg[k] /\ ScalarValue(ret.value[k])

\* A header with a complex value and a list was cleaned.
C9_Witness ==
    /\ ret # NoResult
    /\ \E j, k \in DOMAIN arg : arg[j].kind = "complex" /\ arg[k].kind = "list"

\* C10: every engine call that names an observatory names the same one.
C10_OneObservatory ==
    \A a, b \in engineLog : a.observatory = b.observatory
====
